---- MODULE Spec2Model ----
(***************************************************************************)
(* Model of static/app.js: the chat UI controller (class ChatUI and its    *)
(* helpers ChatMessage, TypingIndicator, ErrorMessage).                    *)
(*                                                                         *)
(* JavaScript runs each event handler to completion: a handler's           *)
(* synchronous part is modelled one source line per action (pc values are  *)
(* named after the line about to run), and no other event (user input,     *)
(* network settlement, timer) is delivered while some invocation of        *)
(* handleFormSubmit is between two of its synchronous lines.  The only     *)
(* suspension points are the awaits of fetchAnswer.                        *)
(*                                                                         *)
(* Strings are sequences of one-character strings.                         *)
(***************************************************************************)
EXTENDS Integers, Sequences, FiniteSets, TLC

\* Number of submit events the model delivers (each one invocation of handleFormSubmit).
MaxSubmits == 2

Ex == 1..MaxSubmits

VARIABLES
  questionInputValue,     \* DOMElements.questionInput.value
  questionInputDisabled,  \* DOMElements.questionInput.disabled
  questionInputHeight,    \* DOMElements.questionInput.style.height ("", "auto", "px")
  submitBtnDisabled,      \* DOMElements.submitBtn.disabled
  btnIconDisplay,         \* DOMElements.btnIcon.style.display
  spinnerDisplay,         \* DOMElements.spinner.style.display
  welcomeScreen,          \* DOMElements.welcomeScreen: "absent", or its style.display
  chatMainPresent,        \* whether document.querySelector(".chat-main") finds an element
  chatMessages,           \* children of DOMElements.chatMessages, in document order
  conversationHistory,    \* ChatUI.conversationHistory
  nSubmits,               \* submit events handled so far
  pc,                     \* per invocation of handleFormSubmit: the line about to run
  question,               \* per invocation: const question
  response,               \* per invocation: the Response fetch resolved with
  data,                   \* per invocation: the value response.json() resolved with
  error,                  \* per invocation: the value thrown inside the try block
  uncaught,               \* per invocation: handleFormSubmit's promise rejected
  requests,               \* bodies of the POSTs issued by fetch, in order
  errorTimers,            \* pending setTimeout callbacks of ErrorMessage.display
  scrollTimers,           \* setTimeout callbacks of scrollToBottom are pending (0 or 1)
  timerFaulted,           \* some timer callback threw
  noticesShown,           \* per invocation: error notices it has displayed
  keyEvent                \* the keydown event the last step delivered, if it was one

progVars == <<questionInputValue, questionInputDisabled, questionInputHeight,
          submitBtnDisabled, btnIconDisplay, spinnerDisplay, welcomeScreen,
          chatMainPresent, chatMessages, conversationHistory, nSubmits, pc,
          question, response, data, error, uncaught, requests, errorTimers,
          scrollTimers, timerFaulted, noticesShown>>

vars == <<progVars, keyEvent>>

viewVars == <<questionInputValue, questionInputDisabled, questionInputHeight,
              submitBtnDisabled, btnIconDisplay, spinnerDisplay, welcomeScreen,
              chatMessages>>

localVars == <<question, response, data, error, uncaught>>

----------------------------------------------------------------------------
\* JavaScript values

Undefined == [t |-> "undefined", s |-> <<>>]
Str(s) == [t |-> "string", s |-> s]

\* What an edit by the user can leave in the textarea (it starts empty, and
\* clearInput empties it again).
Inputs == { <<"\n", " ">>, <<" ", "a", "\n">>, <<"<", "a">> }

\* Answer and error texts a backend may send.
AnswerTexts == { <<"<", "b", ">", "&", "\n", "4">> }
ErrorTexts == { <<"b", "a", "d">>, <<>> }

\* Response bodies: not JSON, the JSON null, or a JSON object with optional fields.
Unparsable == [t |-> "unparsable", answer |-> Undefined, error |-> Undefined]
JsonNull == [t |-> "null", answer |-> Undefined, error |-> Undefined]
JsonObj(a, e) == [t |-> "object", answer |-> a, error |-> e]

Bodies == {Unparsable, JsonNull, JsonObj(Undefined, Undefined)}
            \cup {JsonObj(Str(a), Undefined) : a \in AnswerTexts}
            \cup {JsonObj(Undefined, Str(e)) : e \in ErrorTexts}

NoResponse == [ok |-> FALSE, body |-> Unparsable, present |-> FALSE]
Response(ok, body) == [ok |-> ok, body |-> body, present |-> TRUE]

NoData == [t |-> "none", answer |-> Undefined, error |-> Undefined]

NoError == [name |-> "", message |-> <<>>]
ErrorOf(name, message) == [name |-> name, message |-> message]

\* KeyboardEvent: key, shiftKey, and whether preventDefault() was called
KeyEvent(key, shiftKey, prevented) ==
  [key |-> key, shiftKey |-> shiftKey, defaultPrevented |-> prevented]
NoKeyEvent == KeyEvent("", FALSE, FALSE)

FallbackDetail == <<"Failed to get answer">>
NoticeText == <<"Failed to connect to the server. Please make sure the backend is running.">>

----------------------------------------------------------------------------
\* Pure helpers

IsSpace(c) == c \in {" ", "\n"}

RECURSIVE TrimStart(_)
TrimStart(s) == IF s # <<>> /\ IsSpace(Head(s)) THEN TrimStart(Tail(s)) ELSE s

RECURSIVE TrimEnd(_)
TrimEnd(s) == IF s # <<>> /\ IsSpace(s[Len(s)])
              THEN TrimEnd(SubSeq(s, 1, Len(s) - 1)) ELSE s

\* Mutant: the input is used untrimmed.
Trim_none(s) == s

\* String.prototype.trim
Trim(s) == TrimEnd(TrimStart(s))

\* Mutant: undefined is rendered as the text "undefined".
TextContent_stringified(v) ==
  IF v.t = "string" THEN v.s ELSE <<"u", "n", "d", "e", "f", "i", "n", "e", "d">>

\* Assigning to textContent: null and undefined become the empty string.
TextContent(v) == IF v.t = "string" THEN v.s ELSE <<>>

\* Serialisation of a text node by innerHTML.
EscChar(c) == IF c = "&" THEN <<"&", "a", "m", "p", ";">>
              ELSE IF c = "<" THEN <<"&", "l", "t", ";">>
              ELSE IF c = ">" THEN <<"&", "g", "t", ";">>
              ELSE <<c>>

RECURSIVE Serialize(_)
Serialize(s) == IF s = <<>> THEN <<>> ELSE EscChar(Head(s)) \o Serialize(Tail(s))

RECURSIVE ReplaceNewlines(_)
ReplaceNewlines(s) ==
  IF s = <<>> THEN <<>>
  ELSE (IF Head(s) = "\n" THEN <<"<", "b", "r", ">">> ELSE <<Head(s)>>)
         \o ReplaceNewlines(Tail(s))

\* Mutant: the content is put into the markup unescaped.
escapeHtml_raw(content) == ReplaceNewlines(TextContent(content))

\* ChatMessage.escapeHtml
escapeHtml(content) == ReplaceNewlines(Serialize(TextContent(content)))

\* ChatMessage.getSenderLabel
getSenderLabel(sender) == IF sender = "user" THEN "You" ELSE "AI CHAT BOT"

\* ChatMessage.getElement; ex tags the element with the invocation that made it.
getElement(content, sender, ex) ==
  [className |-> IF sender = "user" THEN "message message-user" ELSE "message message-ai",
   id |-> "", label |-> getSenderLabel(sender), content |-> escapeHtml(content), ex |-> ex]

\* TypingIndicator.create
TypingIndicatorCreate(ex) ==
  [className |-> "message message-ai", id |-> "typingIndicator",
   label |-> "AI CHAT BOT", content |-> <<"typing-indicator">>, ex |-> ex]

\* ErrorMessage.create
ErrorMessageCreate(message, ex) ==
  [className |-> "error-message", id |-> "", label |-> "", content |-> message, ex |-> ex]

RemoveAt(s, k) == SubSeq(s, 1, k - 1) \o SubSeq(s, k + 1, Len(s))

Min(S) == CHOOSE x \in S : \A y \in S : x <= y

\* What the browser shows for the markup of a message's content div: the
\* markup is parsed, <br> is a line break, a character reference is its
\* character, and any other tag contributes no text.
StartsWith(h, p) == Len(h) >= Len(p) /\ SubSeq(h, 1, Len(p)) = p

Drop(h, n) == SubSeq(h, n + 1, Len(h))

IsLetter(c) == c \in {"a", "b", "x"}

TagEnd(h) == IF \E k \in 1..Len(h) : h[k] = ">"
             THEN Min({k \in 1..Len(h) : h[k] = ">"}) ELSE Len(h)

RECURSIVE VisibleText(_)
VisibleText(h) ==
  IF h = <<>> THEN <<>>
  ELSE IF StartsWith(h, <<"<", "b", "r", ">">>) THEN <<"\n">> \o VisibleText(Drop(h, 4))
  ELSE IF StartsWith(h, <<"&", "l", "t", ";">>) THEN <<"<">> \o VisibleText(Drop(h, 4))
  ELSE IF StartsWith(h, <<"&", "g", "t", ";">>) THEN <<">">> \o VisibleText(Drop(h, 4))
  ELSE IF StartsWith(h, <<"&", "a", "m", "p", ";">>) THEN <<"&">> \o VisibleText(Drop(h, 5))
  ELSE IF Head(h) = "<" /\ Len(h) > 1 /\ IsLetter(h[2]) THEN VisibleText(Drop(h, TagEnd(h)))
  ELSE <<Head(h)>> \o VisibleText(Tail(h))

IsTyping(el) == el.id = "typingIndicator"

\* Where document.getElementById("typingIndicator") can find an element
TypingPositions(msgs) == {k \in 1..Len(msgs) : IsTyping(msgs[k])}

----------------------------------------------------------------------------
\* Methods of ChatUI and its helpers, as updates of the state they write

\* Mutant: the loading state is never left.
setLoadingState_stuck(isLoading) ==
  /\ submitBtnDisabled' = TRUE
  /\ questionInputDisabled' = TRUE
  /\ btnIconDisplay' = "none" /\ spinnerDisplay' = "block"

\* Mutant: only the submit control is disabled, the input stays enabled.
setLoadingState_inputEnabled(isLoading) ==
  /\ submitBtnDisabled' = isLoading
  /\ questionInputDisabled' = questionInputDisabled
  /\ IF isLoading
     THEN btnIconDisplay' = "none" /\ spinnerDisplay' = "block"
     ELSE btnIconDisplay' = "block" /\ spinnerDisplay' = "none"

\* Mutant: the spinner is not hidden again.
setLoadingState_spinnerStays(isLoading) ==
  /\ submitBtnDisabled' = isLoading
  /\ questionInputDisabled' = isLoading
  /\ IF isLoading
     THEN btnIconDisplay' = "none" /\ spinnerDisplay' = "block"
     ELSE btnIconDisplay' = "block" /\ spinnerDisplay' = spinnerDisplay

\* ChatUI.setLoadingState
setLoadingState(isLoading) ==
  /\ submitBtnDisabled' = isLoading
  /\ questionInputDisabled' = isLoading
  /\ IF isLoading
     THEN btnIconDisplay' = "none" /\ spinnerDisplay' = "block"
     ELSE btnIconDisplay' = "block" /\ spinnerDisplay' = "none"

\* Mutant: the welcome panel is left as it is.
hideWelcomeScreen_noop == welcomeScreen' = welcomeScreen

\* ChatUI.hideWelcomeScreen
hideWelcomeScreen ==
  welcomeScreen' = IF welcomeScreen # "absent" THEN "none" ELSE welcomeScreen

\* ChatUI.scrollToBottom: one more pending 100 ms timer.  The callbacks are
\* identical and write nothing but chatMain.scrollTop, so the pending ones are
\* kept as one.
scrollToBottom == scrollTimers' = 1

\* ChatUI.addMessage
addMessage(content, sender, ex) ==
  /\ chatMessages' = Append(chatMessages, getElement(content, sender, ex))
  /\ scrollToBottom

\* Mutant: the input keeps its text.
clearInput_keeps ==
  /\ questionInputValue' = questionInputValue
  /\ questionInputHeight' = "auto"

\* ChatUI.clearInput
clearInput ==
  /\ questionInputValue' = <<>>
  /\ questionInputHeight' = "auto"

\* Mutant: the placeholder is never removed.
TypingIndicatorRemove_noop(msgs) == msgs

\* TypingIndicator.remove: the first element with id typingIndicator, if any
TypingIndicatorRemove(msgs) ==
  IF TypingPositions(msgs) = {} THEN msgs
  ELSE RemoveAt(msgs, Min(TypingPositions(msgs)))

\* ErrorMessage.display
ErrorMessageDisplay(message, ex) ==
  /\ chatMessages' = Append(chatMessages, ErrorMessageCreate(message, ex))
  /\ errorTimers' = errorTimers \cup {ex}

\* Mutant: the status is not looked at.
ResponseOk_always(r) == TRUE

\* Mutant: the notice shows the detail of the error that was caught.
ErrorNoticeFor_detail(err) == err.message

\* The message handleError gives its ErrorMessage: the fixed text, whatever
\* error was caught (the error itself only goes to console.error)
ErrorNoticeFor(err) == NoticeText

\* if (!response.ok)
ResponseOk(r) == r.ok

\* Mutant: data.error is used without the fallback.
ErrorDetail_noFallback(d) == d.error.s

\* data.error || "Failed to get answer"
ErrorDetail(d) ==
  IF d.error.t = "string" /\ d.error.s # <<>> THEN d.error.s ELSE FallbackDetail

\* Mutant: the cleanup follows the try/catch instead of being its finally
\* block, so a throw from the catch block skips it.
FinallyEntry_afterCatch(threw) == IF threw THEN "done" ELSE "l149"

\* Where control goes when the try or the catch block completes, normally or
\* by a throw: the finally block.
FinallyEntry(threw) == "l149"

\* The event loop is free to deliver an event: no invocation is between two
\* synchronous lines.
SuspendedPcs == {"awaitFetch", "awaitJson"}
Idle == \A i \in Ex : pc[i] \in {"none", "done"} \cup SuspendedPcs

----------------------------------------------------------------------------
Init ==
  /\ questionInputValue = <<>>
  /\ questionInputDisabled = FALSE
  /\ questionInputHeight = ""
  /\ submitBtnDisabled = FALSE
  /\ btnIconDisplay = ""
  /\ spinnerDisplay = ""
  /\ welcomeScreen \in {"absent", ""}
  /\ chatMainPresent \in BOOLEAN
  /\ chatMessages = <<>>
  /\ conversationHistory = <<>>
  /\ nSubmits = 0
  /\ pc = [i \in Ex |-> "none"]
  /\ question = [i \in Ex |-> <<>>]
  /\ response = [i \in Ex |-> NoResponse]
  /\ data = [i \in Ex |-> NoData]
  /\ error = [i \in Ex |-> NoError]
  /\ uncaught = [i \in Ex |-> FALSE]
  /\ requests = <<>>
  /\ errorTimers = {}
  /\ scrollTimers = 0
  /\ timerFaulted = FALSE
  /\ noticesShown = [i \in Ex |-> 0]
  /\ keyEvent = NoKeyEvent

\* handleFormSubmit, lines 132-135: read and trim the input, return if empty
handleFormSubmit ==
  /\ nSubmits < MaxSubmits
  /\ nSubmits' = nSubmits + 1
  /\ LET i == nSubmits + 1
         q == Trim(questionInputValue)
     IN IF q = <<>>
        THEN /\ pc' = [pc EXCEPT ![i] = "done"]
             /\ UNCHANGED question
        ELSE /\ pc' = [pc EXCEPT ![i] = "l137"]
             /\ question' = [question EXCEPT ![i] = q]
  /\ UNCHANGED <<viewVars, chatMainPresent, conversationHistory, response, data,
                 error, uncaught, requests, errorTimers, scrollTimers,
                 timerFaulted, noticesShown>>

\* The "input" event of the textarea: the user's edit, then autoResizeInput
InputEvent(v) ==
  /\ keyEvent' = NoKeyEvent
  /\ Idle
  /\ ~questionInputDisabled
  /\ questionInputValue' = v
  /\ questionInputHeight' = "px"
  /\ UNCHANGED <<questionInputDisabled, submitBtnDisabled, btnIconDisplay,
                 spinnerDisplay, welcomeScreen, chatMainPresent, chatMessages,
                 conversationHistory, nSubmits, pc, localVars, requests,
                 errorTimers, scrollTimers, timerFaulted, noticesShown>>

\* handleKeyDown: a keydown delivered to the (enabled) textarea
\* Mutant: the Shift modifier is not looked at.
handleKeyDown_ignoresShift(key, shiftKey) ==
  /\ Idle
  /\ ~questionInputDisabled
  /\ IF key = "Enter"
     THEN /\ keyEvent' = KeyEvent(key, shiftKey, TRUE)
          /\ handleFormSubmit
     ELSE /\ keyEvent' = KeyEvent(key, shiftKey, FALSE)
          /\ UNCHANGED progVars

\* handleKeyDown: a keydown delivered to the (enabled) textarea.  On Enter
\* without Shift it prevents the default action and dispatches a submit event,
\* whose listener runs before dispatchEvent returns.
handleKeyDown(key, shiftKey) ==
  /\ Idle
  /\ ~questionInputDisabled
  /\ IF key = "Enter" /\ ~shiftKey
     THEN /\ keyEvent' = KeyEvent(key, shiftKey, TRUE)
          /\ handleFormSubmit
     ELSE /\ keyEvent' = KeyEvent(key, shiftKey, FALSE)
          /\ UNCHANGED progVars

\* Activating the (enabled) submit control fires the form's submit event
ClickSubmit ==
  /\ keyEvent' = NoKeyEvent
  /\ Idle
  /\ ~submitBtnDisabled
  /\ handleFormSubmit

----------------------------------------------------------------------------
\* handleFormSubmit, one source line per step

\* line 137
Step137(i) ==
  /\ keyEvent' = NoKeyEvent
  /\ pc[i] = "l137"
  /\ hideWelcomeScreen
  /\ pc' = [pc EXCEPT ![i] = "l138"]
  /\ UNCHANGED <<questionInputValue, questionInputDisabled, questionInputHeight,
                 submitBtnDisabled, btnIconDisplay, spinnerDisplay,
                 chatMainPresent, chatMessages, conversationHistory, nSubmits,
                 localVars, requests, errorTimers, scrollTimers, timerFaulted,
                 noticesShown>>

\* line 138
Step138(i) ==
  /\ keyEvent' = NoKeyEvent
  /\ pc[i] = "l138"
  /\ addMessage(Str(question[i]), "user", i)
  /\ pc' = [pc EXCEPT ![i] = "l139"]
  /\ UNCHANGED <<questionInputValue, questionInputDisabled, questionInputHeight,
                 submitBtnDisabled, btnIconDisplay, spinnerDisplay, welcomeScreen,
                 chatMainPresent, conversationHistory, nSubmits, localVars,
                 requests, errorTimers, timerFaulted, noticesShown>>

\* line 139
Step139(i) ==
  /\ keyEvent' = NoKeyEvent
  /\ pc[i] = "l139"
  /\ clearInput
  /\ pc' = [pc EXCEPT ![i] = "l140"]
  /\ UNCHANGED <<questionInputDisabled, submitBtnDisabled, btnIconDisplay,
                 spinnerDisplay, welcomeScreen, chatMainPresent, chatMessages,
                 conversationHistory, nSubmits, localVars, requests, errorTimers,
                 scrollTimers, timerFaulted, noticesShown>>

\* line 140
Step140(i) ==
  /\ keyEvent' = NoKeyEvent
  /\ pc[i] = "l140"
  /\ setLoadingState(TRUE)
  /\ pc' = [pc EXCEPT ![i] = "l141"]
  /\ UNCHANGED <<questionInputValue, questionInputHeight, welcomeScreen,
                 chatMainPresent, chatMessages, conversationHistory, nSubmits,
                 localVars, requests, errorTimers, scrollTimers, timerFaulted,
                 noticesShown>>

\* line 141
Step141(i) ==
  /\ keyEvent' = NoKeyEvent
  /\ pc[i] = "l141"
  /\ chatMessages' = Append(chatMessages, TypingIndicatorCreate(i))
  /\ pc' = [pc EXCEPT ![i] = "l144"]
  /\ UNCHANGED <<questionInputValue, questionInputDisabled, questionInputHeight,
                 submitBtnDisabled, btnIconDisplay, spinnerDisplay, welcomeScreen,
                 chatMainPresent, conversationHistory, nSubmits, localVars,
                 requests, errorTimers, scrollTimers, timerFaulted, noticesShown>>

\* line 144 into fetchAnswer, lines 155-159: the POST is issued and awaited
Step144(i) ==
  /\ keyEvent' = NoKeyEvent
  /\ pc[i] = "l144"
  /\ requests' = Append(requests, [question |-> question[i], ex |-> i])
  /\ pc' = [pc EXCEPT ![i] = "awaitFetch"]
  /\ UNCHANGED <<viewVars, chatMainPresent, conversationHistory, nSubmits,
                 localVars, errorTimers, scrollTimers, timerFaulted, noticesShown>>

\* The network: fetch resolves with a response of any status and body
FetchResolve(i, ok, body) ==
  /\ keyEvent' = NoKeyEvent
  /\ Idle
  /\ pc[i] = "awaitFetch"
  /\ response' = [response EXCEPT ![i] = Response(ok, body)]
  /\ pc' = [pc EXCEPT ![i] = "l161"]
  /\ UNCHANGED <<viewVars, chatMainPresent, conversationHistory, nSubmits,
                 question, data, error, uncaught, requests, errorTimers,
                 scrollTimers, timerFaulted, noticesShown>>

\* The network: fetch rejects (unreachable server, aborted connection)
FetchReject(i) ==
  /\ keyEvent' = NoKeyEvent
  /\ Idle
  /\ pc[i] = "awaitFetch"
  /\ error' = [error EXCEPT ![i] = ErrorOf("TypeError", <<"Failed to fetch">>)]
  /\ pc' = [pc EXCEPT ![i] = "l147"]
  /\ UNCHANGED <<viewVars, chatMainPresent, conversationHistory, nSubmits,
                 question, response, data, uncaught, requests, errorTimers,
                 scrollTimers, timerFaulted, noticesShown>>

\* lines 161, 162 and 166: both branches call response.json() and await it
Step161(i) ==
  /\ keyEvent' = NoKeyEvent
  /\ pc[i] = "l161"
  /\ pc' = [pc EXCEPT ![i] = "awaitJson"]
  /\ UNCHANGED <<viewVars, chatMainPresent, conversationHistory, nSubmits,
                 localVars, requests, errorTimers, scrollTimers, timerFaulted,
                 noticesShown>>

\* response.json() settles: it rejects on a body that is not JSON, and else
\* resolves with the parsed value (line 162 when !response.ok, line 166 else)
JsonSettle(i) ==
  /\ keyEvent' = NoKeyEvent
  /\ Idle
  /\ pc[i] = "awaitJson"
  /\ IF response[i].body.t = "unparsable"
     THEN /\ error' = [error EXCEPT ![i] = ErrorOf("SyntaxError", <<"Unexpected token">>)]
          /\ pc' = [pc EXCEPT ![i] = "l147"]
          /\ UNCHANGED data
     ELSE /\ data' = [data EXCEPT ![i] = response[i].body]
          /\ pc' = [pc EXCEPT ![i] = IF ResponseOk(response[i]) THEN "l145" ELSE "l163"]
          /\ UNCHANGED error
  /\ UNCHANGED <<viewVars, chatMainPresent, conversationHistory, nSubmits,
                 question, response, uncaught, requests, errorTimers,
                 scrollTimers, timerFaulted, noticesShown>>

\* line 163: throw new Error(data.error || "Failed to get answer"); reading a
\* property of null throws a TypeError instead
Step163(i) ==
  /\ keyEvent' = NoKeyEvent
  /\ pc[i] = "l163"
  /\ error' = [error EXCEPT ![i] =
                 IF data[i].t = "null"
                 THEN ErrorOf("TypeError", <<"Cannot read properties of null">>)
                 ELSE ErrorOf("Error", ErrorDetail(data[i]))]
  /\ pc' = [pc EXCEPT ![i] = "l147"]
  /\ UNCHANGED <<viewVars, chatMainPresent, conversationHistory, nSubmits,
                 question, response, data, uncaught, requests, errorTimers,
                 scrollTimers, timerFaulted, noticesShown>>

\* line 145, handleResponse (lines 169-176); data.answer of null throws.
\* ex tags the log entry with the invocation that pushed it (the model keeps
\* no timestamps).
handleResponse(i) ==
  /\ keyEvent' = NoKeyEvent
  /\ pc[i] = "l145"
  /\ IF data[i].t = "null"
     THEN /\ error' = [error EXCEPT ![i] =
                         ErrorOf("TypeError", <<"Cannot read properties of null">>)]
          /\ pc' = [pc EXCEPT ![i] = "l147"]
          /\ UNCHANGED <<chatMessages, scrollTimers, conversationHistory>>
     ELSE /\ addMessage(data[i].answer, "ai", i)
          /\ conversationHistory' =
               Append(conversationHistory,
                      [question |-> Str(question[i]), answer |-> data[i].answer,
                       ex |-> i])
          /\ pc' = [pc EXCEPT ![i] = FinallyEntry(FALSE)]
          /\ UNCHANGED error
  /\ UNCHANGED <<questionInputValue, questionInputDisabled, questionInputHeight,
                 submitBtnDisabled, btnIconDisplay, spinnerDisplay, welcomeScreen,
                 chatMainPresent, nSubmits, question, response, data, uncaught,
                 requests, errorTimers, timerFaulted, noticesShown>>

\* Mutant: handleError only logs the error and shows no notice.
handleError_silent(i) ==
  /\ keyEvent' = NoKeyEvent
  /\ pc[i] = "l147"
  /\ pc' = [pc EXCEPT ![i] = FinallyEntry(FALSE)]
  /\ UNCHANGED <<viewVars, chatMainPresent, conversationHistory, nSubmits,
                 localVars, requests, errorTimers, scrollTimers, timerFaulted,
                 noticesShown>>

\* line 147, handleError (lines 178-184)
handleError(i) ==
  /\ keyEvent' = NoKeyEvent
  /\ pc[i] = "l147"
  /\ ErrorMessageDisplay(ErrorNoticeFor(error[i]), i)
  /\ noticesShown' = [noticesShown EXCEPT ![i] = @ + 1]
  /\ pc' = [pc EXCEPT ![i] = FinallyEntry(FALSE)]
  /\ UNCHANGED <<questionInputValue, questionInputDisabled, questionInputHeight,
                 submitBtnDisabled, btnIconDisplay, spinnerDisplay, welcomeScreen,
                 chatMainPresent, conversationHistory, nSubmits, localVars,
                 requests, scrollTimers, timerFaulted>>

\* line 147 when handleError itself throws (before it displays anything):
\* the exception leaves the catch block through the finally block
handleErrorThrows(i) ==
  /\ keyEvent' = NoKeyEvent
  /\ pc[i] = "l147"
  /\ uncaught' = [uncaught EXCEPT ![i] = TRUE]
  /\ pc' = [pc EXCEPT ![i] = FinallyEntry(TRUE)]
  /\ UNCHANGED <<viewVars, chatMainPresent, conversationHistory, nSubmits,
                 question, response, data, error, requests, errorTimers,
                 scrollTimers, timerFaulted, noticesShown>>

\* line 149
Step149(i) ==
  /\ keyEvent' = NoKeyEvent
  /\ pc[i] = "l149"
  /\ setLoadingState(FALSE)
  /\ pc' = [pc EXCEPT ![i] = "l150"]
  /\ UNCHANGED <<questionInputValue, questionInputHeight, welcomeScreen,
                 chatMainPresent, chatMessages, conversationHistory, nSubmits,
                 localVars, requests, errorTimers, scrollTimers, timerFaulted,
                 noticesShown>>

\* line 150, then handleFormSubmit returns and its locals are gone
Step150(i) ==
  /\ keyEvent' = NoKeyEvent
  /\ pc[i] = "l150"
  /\ chatMessages' = TypingIndicatorRemove(chatMessages)
  /\ pc' = [pc EXCEPT ![i] = "done"]
  /\ question' = [question EXCEPT ![i] = <<>>]
  /\ response' = [response EXCEPT ![i] = NoResponse]
  /\ data' = [data EXCEPT ![i] = NoData]
  /\ error' = [error EXCEPT ![i] = NoError]
  /\ UNCHANGED <<questionInputValue, questionInputDisabled, questionInputHeight,
                 submitBtnDisabled, btnIconDisplay, spinnerDisplay, welcomeScreen,
                 chatMainPresent, conversationHistory, nSubmits, uncaught,
                 requests, errorTimers, scrollTimers, timerFaulted, noticesShown>>

----------------------------------------------------------------------------
\* Timers

IsNoticeOf(i, el) == el.className = "error-message" /\ el.ex = i

\* Mutant: the callback removes every error notice of the conversation area.
ErrorTimerFire_removesAll(i) ==
  /\ keyEvent' = NoKeyEvent
  /\ Idle
  /\ i \in errorTimers
  /\ i = Min(errorTimers)
  /\ errorTimers' = errorTimers \ {i}
  /\ chatMessages' = SelectSeq(chatMessages, LAMBDA el : el.className # "error-message")
  /\ UNCHANGED <<questionInputValue, questionInputDisabled, questionInputHeight,
                 submitBtnDisabled, btnIconDisplay, spinnerDisplay, welcomeScreen,
                 chatMainPresent, conversationHistory, nSubmits, pc, localVars,
                 requests, scrollTimers, timerFaulted, noticesShown>>

\* The 5000 ms timer of ErrorMessage.display: errorElement.remove().  Timers
\* of equal delay fire in the order they were set.
ErrorTimerFire(i) ==
  /\ keyEvent' = NoKeyEvent
  /\ Idle
  /\ i \in errorTimers
  /\ i = Min(errorTimers)
  /\ errorTimers' = errorTimers \ {i}
  /\ chatMessages' =
       LET at == {k \in 1..Len(chatMessages) : IsNoticeOf(i, chatMessages[k])}
       IN IF at = {} THEN chatMessages ELSE RemoveAt(chatMessages, Min(at))
  /\ UNCHANGED <<questionInputValue, questionInputDisabled, questionInputHeight,
                 submitBtnDisabled, btnIconDisplay, spinnerDisplay, welcomeScreen,
                 chatMainPresent, conversationHistory, nSubmits, pc, localVars,
                 requests, scrollTimers, timerFaulted, noticesShown>>

\* The 100 ms timer of scrollToBottom: chatMain.scrollTop = chatMain.scrollHeight,
\* which throws when the query found no element
ScrollTimerFire ==
  /\ keyEvent' = NoKeyEvent
  /\ Idle
  /\ scrollTimers > 0
  /\ scrollTimers' = 0
  /\ timerFaulted' = (timerFaulted \/ ~chatMainPresent)
  /\ UNCHANGED <<viewVars, chatMainPresent, conversationHistory, nSubmits, pc,
                 localVars, requests, errorTimers, noticesShown>>

----------------------------------------------------------------------------
\* Keystrokes delivered to the textarea: Enter, Shift+Enter, and another key
KeyStrokes == {KeyEvent("Enter", FALSE, FALSE), KeyEvent("Enter", TRUE, FALSE),
               KeyEvent("a", FALSE, FALSE)}

UserStep ==
  \/ \E v \in Inputs : InputEvent(v)
  \/ \E e \in KeyStrokes : handleKeyDown(e.key, e.shiftKey)
  \/ ClickSubmit

SyncStep(i) ==
  \/ Step137(i) \/ Step138(i) \/ Step139(i) \/ Step140(i) \/ Step141(i)
  \/ Step144(i) \/ Step161(i) \/ Step163(i) \/ handleResponse(i)
  \/ handleError(i) \/ Step149(i) \/ Step150(i)

NetworkStep ==
  \/ \E i \in Ex, ok \in BOOLEAN, body \in Bodies : FetchResolve(i, ok, body)
  \/ \E i \in Ex : FetchReject(i)
  \/ \E i \in Ex : JsonSettle(i)

TimerStep ==
  \/ \E i \in Ex : ErrorTimerFire(i)
  \/ ScrollTimerFire

Next ==
  \/ UserStep
  \/ \E i \in Ex : SyncStep(i)
  \/ NetworkStep
  \/ TimerStep

Spec == Init /\ [][Next]_vars

\* Once a handler runs, its synchronous lines run to the next await or to its
\* end (at most one invocation is between two synchronous lines at a time).
Running == \E i \in Ex : SyncStep(i)

FairSpec == Spec /\ WF_vars(Running)

\* Besides, a timer that was set fires: the event loop runs its callback once
\* no handler is running.
FairTimerSpec == FairSpec /\ WF_vars(\E i \in Ex : ErrorTimerFire(i))

\* The same program where handleError may itself throw.
NextFault == Next \/ \E i \in Ex : handleErrorThrows(i)

SpecFault == Init /\ [][NextFault]_vars

----------------------------------------------------------------------------
\* Vocabulary of the properties

\* The busy state is the pair of disabled flags setLoadingState writes.
BusyTrue == submitBtnDisabled /\ questionInputDisabled
BusyFalse == ~submitBtnDisabled /\ ~questionInputDisabled

Active(i) == pc[i] \notin {"none", "done"}

\* A POST has been issued by invocation i and its exchange has not settled.
Outstanding(i) == pc[i] \in {"awaitFetch", "l161", "awaitJson"}

Requested(i) == \E k \in 1..Len(requests) : requests[k].ex = i

TypingPresent == TypingPositions(chatMessages) # {}

IsBlank(s) == \A k \in 1..Len(s) : IsSpace(s[k])

AiMessagesOf(i) ==
  {k \in 1..Len(chatMessages) :
     /\ chatMessages[k].className = "message message-ai"
     /\ chatMessages[k].id = ""
     /\ chatMessages[k].ex = i}

NoticesOf(i) == {k \in 1..Len(chatMessages) : IsNoticeOf(i, chatMessages[k])}

LogEntriesOf(i) == {k \in 1..Len(conversationHistory) : conversationHistory[k].ex = i}

\* The exchange of invocation i has settled and the try/catch has handled it.
InFinally(i) == pc[i] \in {"l149", "l150"}

----------------------------------------------------------------------------
\* C1: a submit with non-empty trimmed input sets busy (it is busy when the
\* request is outstanding), and once the network exchange has settled, with a
\* 2xx body (l145), a non-2xx body (l163) or a rejection (l147), the
\* invocation ends with busy false.
C1_BusyThenIdle ==
  /\ (\E i \in Ex : pc[i] = "l137")
       ~> (BusyTrue /\ \E i \in Ex : pc[i] = "awaitFetch")
  /\ (\E i \in Ex : pc[i] \in {"l145", "l163", "l147"})
       ~> (BusyFalse /\ \A i \in Ex : ~Active(i))

C1_Witness ==
  \E i \in Ex : pc[i] = "done" /\ Requested(i) /\ noticesShown[i] = 1 /\ BusyFalse

\* C2: at most one invocation of handleFormSubmit is past its empty-input
\* check at any time, so at most one request is outstanding, and while one is,
\* busy is true and the input has been cleared.
C2_OneOutstanding ==
  /\ Cardinality({i \in Ex : Active(i)}) <= 1
  /\ Cardinality({i \in Ex : Outstanding(i)}) <= 1
  /\ \A i \in Ex : Outstanding(i) => BusyTrue /\ questionInputValue = <<>>
  /\ Len(requests) = Cardinality({i \in Ex : Requested(i)})

C2_Witness ==
  \E i, j \in Ex : i # j /\ pc[i] = "done" /\ Requested(i) /\ pc[j] = "awaitFetch"

\* C3: a submit event on an empty or whitespace-only input starts no exchange
\* and changes nothing in the view, the log, the requests or the timers.
C3_BlankSubmitNoop ==
  [][(nSubmits' = nSubmits + 1 /\ IsBlank(questionInputValue))
       => /\ pc'[nSubmits + 1] = "done"
          /\ UNCHANGED <<viewVars, conversationHistory, requests, errorTimers,
                         scrollTimers, noticesShown, localVars>>]_vars

C3_Witness ==
  /\ nSubmits = 2 /\ pc[1] = "done" /\ pc[2] = "done"
  /\ questionInputValue = <<"\n", " ">>
  /\ chatMessages = <<>> /\ requests = <<>> /\ conversationHistory = <<>>
  /\ welcomeScreen = "" /\ BusyFalse

\* C4: when handleResponse runs on a parsed 2xx body whose answer is the text
\* X, it appends exactly one assistant message showing X to the conversation
\* area and exactly one entry {question, answer X} to the log, and goes on to
\* the finally block without an error notice; and in the finally block that
\* invocation has one assistant message, one log entry and no notice.
C4_SuccessRendersOnce ==
  /\ [][\A i \in Ex :
          (pc[i] = "l145" /\ pc'[i] # "l145" /\ data[i].answer.t = "string")
            => /\ Len(chatMessages') = Len(chatMessages) + 1
               /\ SubSeq(chatMessages', 1, Len(chatMessages)) = chatMessages
               /\ chatMessages'[Len(chatMessages')].className = "message message-ai"
               /\ chatMessages'[Len(chatMessages')].label = "AI CHAT BOT"
               /\ VisibleText(chatMessages'[Len(chatMessages')].content) = data[i].answer.s
               /\ conversationHistory' =
                    Append(conversationHistory,
                           [question |-> Str(requests[Len(requests)].question),
                            answer |-> data[i].answer, ex |-> i])
               /\ pc'[i] = "l149"
               /\ noticesShown' = noticesShown /\ errorTimers' = errorTimers]_vars
  /\ [](\A i \in Ex :
          (InFinally(i) /\ data[i].answer.t = "string" /\ ResponseOk(response[i]))
            => /\ Cardinality(AiMessagesOf(i)) = 1
               /\ Cardinality(LogEntriesOf(i)) = 1
               /\ noticesShown[i] = 0 /\ NoticesOf(i) = {})

C4_Witness ==
  \E i \in Ex :
    /\ pc[i] = "l149" /\ data[i].answer = Str(<<"<", "b", ">", "&", "\n", "4">>)
    /\ ResponseOk(response[i])
    /\ Cardinality(AiMessagesOf(i)) = 1 /\ Len(conversationHistory) = i

\* C5: when the exchange settled with a non-2xx response, whatever its body,
\* the invocation reaches the finally block with no assistant message of its
\* own and with exactly one connection-failure notice, appended last.
C5_Non2xxOneNotice ==
  \A i \in Ex :
    (InFinally(i) /\ response[i].present /\ ~response[i].ok)
      => /\ AiMessagesOf(i) = {}
         /\ LogEntriesOf(i) = {}
         /\ noticesShown[i] = 1
         /\ Cardinality(NoticesOf(i)) = 1
         /\ chatMessages[Len(chatMessages)] = ErrorMessageCreate(NoticeText, i)

C5_Witness ==
  \E i \in Ex :
    /\ pc[i] = "l150" /\ response[i] = Response(FALSE, JsonObj(Undefined, Str(<<"b", "a", "d">>)))
    /\ noticesShown[i] = 1 /\ error[i] = ErrorOf("Error", <<"b", "a", "d">>)

\* C6: whenever no invocation of handleFormSubmit is running or suspended,
\* busy is false and no typing placeholder is left, also after an invocation
\* in which handleResponse threw or handleError itself threw.
C6_CleanupAlways ==
  (\A i \in Ex : ~Active(i)) => BusyFalse /\ ~TypingPresent

C6_Witness ==
  \E i \in Ex :
    /\ pc[i] = "done" /\ uncaught[i] /\ Requested(i) /\ noticesShown[i] = 0
    /\ \A j \in Ex : ~Active(j)

\* A body that cannot be parsed, or parses to a value without a text answer.
Malformed(body) == body.t = "unparsable" \/ body.answer.t # "string"

HandledAsFailure(i) ==
  /\ AiMessagesOf(i) = {}
  /\ LogEntriesOf(i) = {}
  /\ noticesShown[i] = 1
  /\ Cardinality(NoticesOf(i)) = 1

\* C7 as claimed: every malformed 2xx body, unparsable or parsable without an
\* answer field, ends as a failure: no assistant message, no log entry, one
\* connection-failure notice.
C7_Original ==
  \A i \in Ex :
    (InFinally(i) /\ response[i].present /\ response[i].ok /\ Malformed(response[i].body))
      => HandledAsFailure(i)

\* C7 amended: a 2xx body that is unparsable, or that is the JSON null, ends
\* as a failure (no assistant message, no log entry, one notice); a 2xx body
\* that parses to an object without an answer field ends as a success with an
\* undefined answer: one assistant message with empty content, one log entry
\* whose answer is undefined, and no notice.
C7_MalformedSuccessBody ==
  \A i \in Ex :
    (InFinally(i) /\ response[i].present /\ response[i].ok /\ Malformed(response[i].body))
      => IF response[i].body.t \in {"unparsable", "null"}
         THEN HandledAsFailure(i)
         ELSE /\ Cardinality(AiMessagesOf(i)) = 1
              /\ \A k \in AiMessagesOf(i) : chatMessages[k].content = <<>>
              /\ Cardinality(LogEntriesOf(i)) = 1
              /\ \A k \in LogEntriesOf(i) : conversationHistory[k].answer = Undefined
              /\ noticesShown[i] = 0 /\ NoticesOf(i) = {}

C7_Witness ==
  \E i \in Ex :
    /\ pc[i] = "l149" /\ response[i] = Response(TRUE, JsonObj(Undefined, Undefined))
    /\ Cardinality(AiMessagesOf(i)) = 1 /\ noticesShown[i] = 0

\* Invocation i was a failed exchange that has ended.
FailedAndDone(i) == pc[i] = "done" /\ Requested(i) /\ noticesShown[i] >= 1

\* C8: once a failed exchange has ended, busy is false, the input and the
\* submit control are enabled, no typing placeholder remains and the event
\* loop is free, so a submit is accepted; and a non-empty submit that follows
\* a failed exchange goes on to issue its own request.
C8_UsableAfterFailure ==
  /\ []((\E i \in Ex : FailedAndDone(i)) /\ (\A j \in Ex : ~Active(j))
          => Idle /\ BusyFalse /\ ~TypingPresent)
  /\ (\E i, j \in Ex : FailedAndDone(i) /\ pc[j] = "l137")
       ~> (\E i, j \in Ex : FailedAndDone(i) /\ pc[j] = "awaitFetch" /\ i < j
                              /\ requests[Len(requests)].ex = j)

C8_Witness ==
  \E i, j \in Ex :
    /\ FailedAndDone(i) /\ pc[j] = "awaitFetch" /\ Requested(j)
    /\ requests[Len(requests)].ex = j /\ Len(requests) = 2

\* The send icon and the spinner as the page shows them: an element whose
\* inline display was never written is shown or hidden by the page's own
\* stylesheet, which shows the icon and hides the spinner.
SendIconShown == btnIconDisplay \in {"", "block"}
SpinnerShown == spinnerDisplay = "block"

\* C9: while a request is outstanding the input and the submit control are
\* disabled, the send icon is hidden and the spinner shown; while no exchange
\* is in progress the input and the control are enabled, the send icon is
\* shown and the spinner hidden.
C9_BusyAffordances ==
  /\ (\E i \in Ex : Outstanding(i))
       => /\ questionInputDisabled /\ submitBtnDisabled
          /\ ~SendIconShown /\ SpinnerShown
  /\ (\A i \in Ex : ~Active(i))
       => /\ ~questionInputDisabled /\ ~submitBtnDisabled
          /\ SendIconShown /\ ~SpinnerShown

C9_Witness ==
  /\ \E i \in Ex : pc[i] = "done" /\ Requested(i)
  /\ \A i \in Ex : ~Active(i)
  /\ btnIconDisplay = "block" /\ spinnerDisplay = "none"

\* Something has been rendered for the exchange in progress: an assistant
\* message or an error notice of an invocation that has not ended.
ResultRendered == \E i \in Ex : Active(i) /\ (AiMessagesOf(i) # {} \/ noticesShown[i] > 0)

C11_EnterSubmits ==
  [][keyEvent' # NoKeyEvent
       => IF keyEvent'.key = "Enter" /\ ~keyEvent'.shiftKey
          THEN /\ nSubmits' = nSubmits + 1
               /\ keyEvent'.defaultPrevented
               /\ IF IsBlank(questionInputValue)
                  THEN pc'[nSubmits + 1] = "done"
                  ELSE /\ pc'[nSubmits + 1] = "l137"
                       /\ question'[nSubmits + 1] # <<>>
                       /\ question'[nSubmits + 1] = Trim(questionInputValue)
          ELSE /\ nSubmits' = nSubmits
               /\ ~keyEvent'.defaultPrevented
               /\ UNCHANGED progVars]_vars

C11_Witness ==
  /\ keyEvent = KeyEvent("Enter", TRUE, FALSE)
  /\ nSubmits = 1 /\ pc[1] = "done" /\ Requested(1)
  /\ questionInputValue = <<"<", "a">>

\* The last n children of the conversation area
LastChildren(n) == SubSeq(chatMessages, Len(chatMessages) - n + 1, Len(chatMessages))

\* C12: whatever error was caught (the Error of a non-2xx response with any
\* detail, a rejection of fetch, a body that cannot be parsed), once
\* handleError has run the view is a function of the question alone: the
\* conversation area ends with the user's message, the placeholder and the
\* fixed notice, the input is empty, and the welcome panel is hidden.
C12_FailureKindInvisible ==
  \A i \in Ex :
    (InFinally(i) /\ error[i] # NoError)
      => /\ Len(chatMessages) >= 3
         /\ LastChildren(3) = << getElement(Str(requests[Len(requests)].question), "user", i),
                                 TypingIndicatorCreate(i),
                                 ErrorMessageCreate(NoticeText, i) >>
         /\ questionInputValue = <<>> /\ questionInputHeight = "auto"
         /\ welcomeScreen \in {"absent", "none"}
         /\ questionInputDisabled = (pc[i] = "l149")
         /\ submitBtnDisabled = (pc[i] = "l149")
         /\ btnIconDisplay = (IF pc[i] = "l149" THEN "none" ELSE "block")
         /\ spinnerDisplay = (IF pc[i] = "l149" THEN "block" ELSE "none")
         /\ LogEntriesOf(i) = {}

C12_Witness ==
  \E i \in Ex :
    /\ pc[i] = "l150" /\ ~response[i].present
    /\ error[i] = ErrorOf("TypeError", <<"Failed to fetch">>)
    /\ chatMessages[Len(chatMessages)] = ErrorMessageCreate(NoticeText, i)

\* The conversation area without the notice of invocation i
WithoutNoticeOf(i) == SelectSeq(chatMessages, LAMBDA el : ~IsNoticeOf(i, el))

\* C13: a displayed notice has its own pending timer and is displayed once;
\* it is eventually removed; and the step that fires the timer of notice i
\* removes that one element and changes nothing else: the other children of
\* the conversation area (user and assistant messages, the placeholder, other
\* notices), the busy state, the input, the log and every invocation are
\* unchanged, and the timer does not fire again.
C13_NoticeExpires ==
  /\ [](\A i \in Ex :
          /\ NoticesOf(i) # {} => i \in errorTimers /\ Cardinality(NoticesOf(i)) = 1
          /\ noticesShown[i] <= 1)
  /\ \A i \in Ex : (NoticesOf(i) # {}) ~> (NoticesOf(i) = {} /\ i \notin errorTimers)
  /\ [][\A i \in Ex :
          (i \in errorTimers /\ i \notin errorTimers')
            => /\ NoticesOf(i) # {}
               /\ chatMessages' = WithoutNoticeOf(i)
               /\ Len(chatMessages') = Len(chatMessages) - 1
               /\ errorTimers' = errorTimers \ {i}
               /\ UNCHANGED <<questionInputValue, questionInputDisabled,
                              questionInputHeight, submitBtnDisabled, btnIconDisplay,
                              spinnerDisplay, welcomeScreen, conversationHistory,
                              nSubmits, pc, localVars, requests, noticesShown>>]_vars

C13_Witness ==
  /\ errorTimers = {2} /\ noticesShown = <<1, 1>>
  /\ NoticesOf(1) = {} /\ NoticesOf(2) # {}
  /\ pc[2] = "done"

\* The welcome panel is on the page and not hidden.
WelcomeShown == welcomeScreen \notin {"absent", "none"}

\* C14: whenever the conversation area holds an element the welcome panel is
\* not shown; it is already hidden in the state from which the first element
\* is appended; and once hidden it stays hidden.
C14_WelcomeHidden ==
  /\ [](chatMessages # <<>> => ~WelcomeShown)
  /\ [][(chatMessages = <<>> /\ chatMessages' # <<>>) => ~WelcomeShown]_vars
  /\ [][~WelcomeShown => ~WelcomeShown']_vars

C14_Witness ==
  /\ welcomeScreen = "none" /\ nSubmits = 2 /\ pc[2] = "l138"
  /\ Len(chatMessages) >= 2

\* fetchAnswer has thrown on a non-2xx response and the catch block is entered.
ThrownOnNon2xx(i) == pc[i] = "l147" /\ response[i].present /\ ~response[i].ok

HasErrorField(body) == body.error.t = "string" /\ body.error.s # <<>>

\* C15 as claimed: for every body of a non-2xx response, also one that cannot
\* be parsed, the error thrown is an Error whose detail is the body's error
\* field when there is one and the generic fallback otherwise.
C15_Original ==
  \A i \in Ex :
    ThrownOnNon2xx(i)
      => /\ error[i].name = "Error"
         /\ error[i].message = IF HasErrorField(response[i].body)
                               THEN response[i].body.error.s ELSE FallbackDetail

\* C15 amended: when the body of a non-2xx response parses to an object, the
\* error thrown is an Error whose detail is the body's error field when that
\* is a non-empty text, and the generic fallback when the field is missing or
\* empty; when the body cannot be parsed the error is the SyntaxError of
\* response.json(), and when it is the JSON null it is a TypeError: neither
\* carries the error field or the fallback detail.
C15_ErrorDetail ==
  \A i \in Ex :
    ThrownOnNon2xx(i)
      => IF response[i].body.t = "unparsable" THEN error[i].name = "SyntaxError"
         ELSE IF response[i].body.t = "null" THEN error[i].name = "TypeError"
         ELSE /\ error[i].name = "Error"
              /\ error[i].message = IF HasErrorField(response[i].body)
                                    THEN response[i].body.error.s ELSE FallbackDetail

C15_Witness ==
  \E i \in Ex :
    /\ ThrownOnNon2xx(i) /\ response[i].body = Unparsable
    /\ error[i].name = "SyntaxError" /\ error[i].message # FallbackDetail

\* C16 as claimed: no timer callback ever throws, also when its target is
\* missing: the expiry timer of a notice, and the scroll timer on a page where
\* the query for .chat-main found no element.
C16_Original == ~timerFaulted

----------------------------------------------------------------------------
\* The effects of the lines before the network call, as the page shows them
UserMessagesOf(i) ==
  {k \in 1..Len(chatMessages) :
     /\ chatMessages[k].className = "message message-user"
     /\ chatMessages[k].ex = i}

TypingShownBy(i) ==
  \E k \in TypingPositions(chatMessages) : chatMessages[k].ex = i

InputCleared == questionInputValue = <<>>

\* Invocation i has passed the empty check and its exchange has not settled.
BeforeSettling(i) ==
  pc[i] \in {"l137", "l138", "l139", "l140", "l141", "l144",
             "awaitFetch", "l161", "awaitJson"}

\* C17: on a non-empty submit the steps before the network call happen in the
\* order hide welcome panel, render the user's message, clear the input, set
\* busy, show the typing placeholder, issue the request: until the exchange
\* settles each of these effects is there only if the one before it is, so a
\* request is never outstanding while busy is false or the placeholder absent.
C17_OrderBeforeRequest ==
  \A i \in Ex :
    /\ BeforeSettling(i) =>
         /\ Requested(i) => TypingShownBy(i)
         /\ TypingShownBy(i) => BusyTrue
         /\ BusyTrue => InputCleared
         /\ InputCleared => UserMessagesOf(i) # {}
         /\ UserMessagesOf(i) # {} => ~WelcomeShown
    /\ Outstanding(i) => BusyTrue /\ TypingPresent

\* The placeholder is shown and the request not yet issued, on a page that had
\* a welcome panel.
C17_Witness ==
  \E i \in Ex :
    /\ pc[i] = "l144"
    /\ ~Requested(i)
    /\ TypingShownBy(i)
    /\ BusyTrue
    /\ InputCleared
    /\ UserMessagesOf(i) # {}
    /\ welcomeScreen = "none"

----------------------------------------------------------------------------
\* The exchange of invocation i has settled and handleFormSubmit has not
\* returned: it is at handleResponse, at handleError or in the finally block.
Settling(i) == pc[i] \in {"l145", "l147", "l149", "l150"}

\* The result of the exchange of invocation i is on the page.
ResultRenderedFor(i) == AiMessagesOf(i) # {} \/ NoticesOf(i) # {}

----------------------------------------------------------------------------
\* The exchange of invocation i settled with a 2xx status and a body that
\* parsed to an object: the case handleFormSubmit hands to handleResponse.
SettledSuccessfully(i) ==
  response[i].present /\ response[i].ok /\ response[i].body.t = "object"

\* Invocation i has returned without a successful exchange: its submit was
\* empty, or its exchange failed and the notice was shown.
EndedWithoutSuccess(i) ==
  pc[i] = "done" /\ (~Requested(i) \/ noticesShown[i] > 0)

\* C19: the conversation log is append-only.  A step either leaves it as it
\* is, or adds one entry at its end, for an invocation whose exchange settled
\* successfully, with that invocation's question; the entries are in the order
\* of the submits; an invocation that ended on an empty submit or a failed
\* exchange has no entry.
C19_LogAppendOnly ==
  /\ [][\/ conversationHistory' = conversationHistory
        \/ \E i \in Ex :
             /\ SettledSuccessfully(i)
             /\ Len(conversationHistory') = Len(conversationHistory) + 1
             /\ SubSeq(conversationHistory', 1, Len(conversationHistory))
                  = conversationHistory
             /\ conversationHistory'[Len(conversationHistory')].ex = i
             /\ conversationHistory'[Len(conversationHistory')].question
                  = Str(question[i])]_vars
  /\ [](\A k, l \in 1..Len(conversationHistory) :
          k < l => conversationHistory[k].ex < conversationHistory[l].ex)
  /\ [](\A i \in Ex : EndedWithoutSuccess(i) => LogEntriesOf(i) = {})

\* Two successful exchanges have ended and the log holds their entries in the
\* order they were submitted.
C19_Witness ==
  /\ Len(conversationHistory) = 2
  /\ conversationHistory[1].ex = 1 /\ conversationHistory[2].ex = 2
  /\ conversationHistory[2].answer = Str(<<"<", "b", ">", "&", "\n", "4">>)
  /\ pc[2] = "done"

----------------------------------------------------------------------------
\* Counts of what has been rendered
UserMessages ==
  {k \in 1..Len(chatMessages) : chatMessages[k].className = "message message-user"}

AssistantMessages ==
  {k \in 1..Len(chatMessages) :
     chatMessages[k].className = "message message-ai" /\ ~IsTyping(chatMessages[k])}

RECURSIVE NoticesShownUpTo(_)
NoticesShownUpTo(n) ==
  IF n = 0 THEN 0 ELSE noticesShown[n] + NoticesShownUpTo(n - 1)

\* The error notices ever displayed, expired ones included
NoticesEverShown == NoticesShownUpTo(MaxSubmits)

NoExchangeInProgress == \A i \in Ex : ~Active(i)

\* C20: in every state with no exchange in progress, the number of user
\* messages rendered is the number of assistant messages rendered plus the
\* number of error notices ever displayed, and the number of assistant
\* messages is the length of the conversation log: every exchange that settled
\* produced exactly one of the two.
C20_OneResultPerExchange ==
  NoExchangeInProgress
    => /\ Cardinality(UserMessages)
            = Cardinality(AssistantMessages) + NoticesEverShown
       /\ Cardinality(AssistantMessages) = Len(conversationHistory)

\* A failed exchange whose notice has expired, then a successful one.
C20_Witness ==
  /\ NoExchangeInProgress
  /\ noticesShown[1] = 1 /\ NoticesOf(1) = {}
  /\ Cardinality(UserMessages) = 2
  /\ Cardinality(AssistantMessages) = 1
  /\ Len(conversationHistory) = 1

====
